---- MODULE Spec2Model ----
(***************************************************************************)
(* Model of sony-osa-fetcher.py: the paginated, semaphore-gated fetch of   *)
(* the upstream file listing, the diff against the snapshot file, the      *)
(* sequential Telegram notification loop and the snapshot write.  One run  *)
(* of the script is one pass of main(); successive runs share only the     *)
(* snapshot file.                                                          *)
(***************************************************************************)
EXTENDS Integers, Sequences, FiniteSets, TLC

\* ---- bounds of the model ------------------------------------------------
\* largest totalFiles the upstream reports
MaxTotal == 3
\* batch_size ranges over 1..MaxBatch (parameter of fetch_all_sony_archives)
MaxBatch == 2
\* max_concurrent ranges over 1..MaxConc (parameter of fetch_all_sony_archives)
MaxConc == 2
\* longest filesList the upstream returns in one page
MaxPageLen == 1
\* number of runs of the script that are modelled
MaxRuns == 3

\* ---- constants of the program -------------------------------------------
BASE_URL == "https://developer.sony.com"

\* ---- python helpers -----------------------------------------------------
\* the empty dict {}
EmptyDict == [k \in {} |-> ""]

\* dict.get(k, default)
Get(d, k, default) == IF k \in DOMAIN d THEN d[k] ELSE default

\* list(range(start, stop, step)) for step >= 1, with an inclusive stop: off by one
PyRangeInclusive(start, stop, step) ==
  LET n == IF stop >= start THEN (stop - start) \div step + 1 ELSE 0
  IN  [i \in 1..n |-> start + (i - 1) * step]

\* list(range(start, stop, step)) for step >= 1
PyRange(start, stop, step) ==
  LET n == IF stop > start THEN (stop - start + step - 1) \div step ELSE 0
  IN  [i \in 1..n |-> start + (i - 1) * step]

\* the elements of a list, as a set
Elems(s) == {s[i] : i \in 1..Len(s)}

\* Python's None, which is no string the program builds
None == "<None>"

\* ---- the upstream's data ------------------------------------------------
\* raw records of filesList: complete ones, one without post_title, one without key
RawItems ==
  { [key |-> "/a", content |-> [post_title |-> "A"]],
    [key |-> "/b", content |-> EmptyDict],
    [content |-> [post_title |-> "C"]] }

RECURSIVE SeqsUpTo(_, _)
SeqsUpTo(S, n) ==
  IF n = 0 THEN {<<>>}
  ELSE LET shorter == SeqsUpTo(S, n - 1)
       IN  shorter \cup {Append(s, x) : s \in {t \in shorter : Len(t) = n - 1}, x \in S}

\* the JSON bodies the file API answers with: a filesList, or none at all
PageBodies == {[filesList |-> p] : p \in SeqsUpTo(RawItems, MaxPageLen)} \cup {EmptyDict}

\* the JSON bodies of the first response, of which only totalFiles is read
TotalBodies == {[totalFiles |-> t] : t \in 0..MaxTotal} \cup {EmptyDict}

\* HTTP statuses: 200 and one that is not
Statuses == {200, 500}

\* ---- Item Normalizer ----------------------------------------------------
process_item(item) ==
  LET key == Get(item, "key", "")
      content == Get(item, "content", EmptyDict)
      post_title == Get(content, "post_title", "")
      full_url == IF key # "" THEN BASE_URL \o key ELSE ""
  IN  [title |-> post_title, url |-> full_url]

\* [process_item(item) for item in data.get('filesList', [])]
ProcessPage(data) ==
  LET raw == Get(data, "filesList", <<>>)
  IN  [i \in 1..Len(raw) |-> process_item(raw[i])]

format_message(post) == "<b>" \o post.title \o "</b>\n" \o post.url


\* ---- state --------------------------------------------------------------
VARIABLES
  file,              \* OUTPUT_FILE: [state: absent | corrupt | valid, data: the list it holds]
  run,               \* which run of the script this is
  pc,                \* where main() stands
  exit_code,         \* the process's exit code, -1 while it runs
  batch_size,        \* parameter of fetch_all_sony_archives
  max_concurrent,    \* parameter of fetch_all_sony_archives
  total_files,       \* totalFiles of the first response
  all_results,       \* the accumulator of fetch_all_sony_archives
  remaining_offsets, \* list(range(batch_size, total_files, batch_size))
  task,              \* state of fetch_with_semaphore(remaining_offsets[i])
  batch_results,     \* what task i returned
  semaphore,         \* free permits of the asyncio.Semaphore
  new_result,        \* main's locals
  old_result,
  new_posts,
  idx,               \* how many posts the for loop has taken from new_posts
  requested,         \* history: how many GETs were issued per offset in this run
  pages,             \* history: offset -> the body fetch_batch got for it
  completed,         \* history: offsets of the remaining pages, in completion order
  failed,            \* history: offsets whose request answered non-200
  sends,             \* history: the sendMessage posts of this run, in issue order
  delays,            \* history: how many asyncio.sleep(30) have elapsed in this run
  fileAtStart,       \* history: the file when the run started
  unnotified,        \* history: urls whose send failed and that every completed run since has listed
  failedEver         \* history: urls whose send failed in some completed run

params == <<batch_size, max_concurrent>>
fetchVars == <<total_files, all_results, remaining_offsets, task, batch_results, semaphore>>
mainVars == <<new_result, old_result, new_posts, idx>>
reqVars == <<requested, pages, completed, failed>>
sendVars == <<sends, delays>>
vars == <<file, run, pc, exit_code, params, fetchVars, mainVars, reqVars, sendVars,
          fileAtStart, unnotified, failedEver>>

Offsets == 0..(MaxTotal + MaxBatch)

\* snapshot files a first run may find: none, an unparsable one, or a list written earlier
InitialFiles ==
  { [state |-> "absent", data |-> <<>>],
    [state |-> "corrupt", data |-> <<>>],
    [state |-> "valid", data |-> <<>>],
    [state |-> "valid", data |-> <<[title |-> "Old", url |-> BASE_URL \o "/a"]>>] }

Init ==
  /\ file \in InitialFiles
  /\ run = 1
  /\ pc = "start"
  /\ exit_code = -1
  /\ batch_size \in 1..MaxBatch
  /\ max_concurrent \in 1..MaxConc
  /\ total_files = 0
  /\ all_results = <<>>
  /\ remaining_offsets = <<>>
  /\ task = <<>>
  /\ batch_results = <<>>
  /\ semaphore = 0
  /\ new_result = <<>>
  /\ old_result = <<>>
  /\ new_posts = <<>>
  /\ idx = 0
  /\ requested = [o \in Offsets |-> 0]
  /\ pages = EmptyDict
  /\ completed = <<>>
  /\ failed = {}
  /\ sends = <<>>
  /\ delays = 0
  /\ fileAtStart = file
  /\ unnotified = {}
  /\ failedEver = {}

\* ---- fetch_all_sony_archives --------------------------------------------
\* response.status != 200 is the error branch
StatusIgnored(status) == TRUE

StatusOK(status) == status = 200

\* except Exception in main: print, sys.exit(1)
Fatal ==
  /\ pc' = "exited"
  /\ exit_code' = 1

\* session.get(build_url(url, batch_size, offset))
IssueGet(offset) == requested' = [requested EXCEPT ![offset] = @ + 1]

\* main() calls fetch_all_sony_archives, which opens the session and GETs offset 0
StartRun ==
  /\ pc = "start"
  /\ IssueGet(0)
  /\ pc' = "first_request"
  /\ UNCHANGED <<file, run, exit_code, params, fetchVars, mainVars, pages, completed,
                 failed, sendVars, fileAtStart, unnotified, failedEver>>

\* the first response: its status is checked, totalFiles read, then fetch_batch(.., 0) called
FirstResponse(status, data) ==
  /\ pc = "first_request"
  /\ IF StatusOK(status)
       THEN /\ total_files' = Get(data, "totalFiles", 0)
            /\ IssueGet(0)
            /\ pc' = "first_batch"
            /\ UNCHANGED exit_code
       ELSE /\ Fatal
            /\ UNCHANGED <<total_files, requested>>
  /\ failed' = IF status = 200 THEN failed ELSE failed \cup {0}
  /\ UNCHANGED <<file, run, params, all_results, remaining_offsets, task, batch_results,
                 semaphore, mainVars, pages, completed, sendVars, fileAtStart, unnotified, failedEver>>

\* fetch_batch(.., 0) answers; remaining_offsets is computed and the tasks are created
FirstBatchResponse(status, data) ==
  /\ pc = "first_batch"
  /\ IF StatusOK(status)
       THEN LET offsets == PyRange(batch_size, total_files, batch_size)
            IN  /\ all_results' = all_results \o ProcessPage(data)
                /\ pages' = (0 :> data) @@ pages
                /\ remaining_offsets' = offsets
                /\ IF offsets # <<>>
                     THEN /\ semaphore' = max_concurrent
                          /\ task' = [i \in 1..Len(offsets) |-> "pending"]
                          /\ batch_results' = [i \in 1..Len(offsets) |-> <<>>]
                          /\ pc' = "gather"
                     ELSE /\ pc' = "fetched"
                          /\ UNCHANGED <<semaphore, task, batch_results>>
                /\ UNCHANGED exit_code
       ELSE /\ Fatal
            /\ UNCHANGED <<all_results, pages, remaining_offsets, semaphore, task, batch_results>>
  /\ failed' = IF status = 200 THEN failed ELSE failed \cup {0}
  /\ UNCHANGED <<file, run, params, total_files, mainVars, requested, completed, sendVars,
                 fileAtStart, unnotified, failedEver>>

\* async with semaphore, with no permit needed: no gate at all
CanAcquireUngated(i) ==
  /\ task[i] = "pending"
  /\ \A j \in 1..(i - 1) : task[j] # "pending"

\* async with semaphore: a permit is free and no earlier task still waits for one
CanAcquire(i) ==
  /\ task[i] = "pending"
  /\ \A j \in 1..(i - 1) : task[j] # "pending"
  /\ semaphore > 0

\* task i enters the semaphore and issues its GET
Acquire(i) ==
  /\ pc = "gather"
  /\ CanAcquire(i)
  /\ semaphore' = semaphore - 1
  /\ task' = [task EXCEPT ![i] = "inflight"]
  /\ IssueGet(remaining_offsets[i])
  /\ UNCHANGED <<file, run, pc, exit_code, params, total_files, all_results, remaining_offsets,
                 batch_results, mainVars, pages, completed, failed, sendVars, fileAtStart,
                 unnotified, failedEver>>

\* task i's response arrives: it returns its page or raises, and leaves the semaphore
TaskResponse(i, status, data) ==
  /\ pc = "gather"
  /\ task[i] = "inflight"
  /\ semaphore' = semaphore + 1
  /\ IF StatusOK(status)
       THEN /\ task' = [task EXCEPT ![i] = "done"]
            /\ batch_results' = [batch_results EXCEPT ![i] = ProcessPage(data)]
            /\ pages' = (remaining_offsets[i] :> data) @@ pages
            /\ completed' = Append(completed, remaining_offsets[i])
       ELSE /\ task' = [task EXCEPT ![i] = "failed"]
            /\ UNCHANGED <<batch_results, pages, completed>>
  /\ failed' = IF status = 200 THEN failed ELSE failed \cup {remaining_offsets[i]}
  /\ UNCHANGED <<file, run, pc, exit_code, params, total_files, all_results, remaining_offsets,
                 mainVars, requested, sendVars, fileAtStart, unnotified, failedEver>>

\* the pages in the order their tasks completed
CompletionOrder ==
  [k \in 1..Len(completed) |->
     CHOOSE i \in 1..Len(remaining_offsets) : remaining_offsets[i] = completed[k]]

\* asyncio.gather returns the results in the order of the awaitables it was given
GatherOrder == [i \in 1..Len(remaining_offsets) |-> i]

\* for results in batch_results: all_results.extend(results)
RECURSIVE ExtendAll(_, _)
ExtendAll(acc, order) ==
  IF order = <<>> THEN acc
  ELSE ExtendAll(acc \o batch_results[Head(order)], Tail(order))

\* gather returns once every task is done; the accumulator is extended and returned
GatherReturns ==
  /\ pc = "gather"
  /\ \A i \in 1..Len(task) : task[i] = "done"
  /\ all_results' = ExtendAll(all_results, GatherOrder)
  /\ pc' = "fetched"
  /\ UNCHANGED <<file, run, exit_code, params, total_files, remaining_offsets, task,
                 batch_results, semaphore, mainVars, reqVars, sendVars, fileAtStart, unnotified, failedEver>>

\* gather raises the first exception; main exits and the loop cancels what is left
GatherRaises ==
  /\ pc = "gather"
  /\ \E i \in 1..Len(task) : task[i] = "failed"
  /\ Fatal
  /\ task' = [i \in 1..Len(task) |->
                IF task[i] \in {"pending", "inflight"} THEN "cancelled" ELSE task[i]]
  /\ UNCHANGED <<file, run, params, total_files, all_results, remaining_offsets,
                 batch_results, semaphore, mainVars, reqVars, sendVars, fileAtStart, unnotified, failedEver>>


\* ---- main: snapshot, diff, notify, write ---------------------------------
Urls(items) == {Get(items[i], "url", None) : i \in 1..Len(items)}

\* an unparsable file read as if there were none
LoadLenient(f) ==
  [ok |-> TRUE, value |-> IF f.state = "valid" THEN f.data ELSE <<>>]

\* old_result = []; if os.path.exists(OUTPUT_FILE): old_result = json.load(f)
Load(f) ==
  IF f.state = "absent" THEN [ok |-> TRUE, value |-> <<>>]
  ELSE IF f.state = "valid" THEN [ok |-> TRUE, value |-> f.data]
  ELSE [ok |-> FALSE, value |-> <<>>]

\* the fetch returned; the snapshot file is read, json.load may raise
LoadSnapshot ==
  /\ pc = "fetched"
  /\ new_result' = all_results
  /\ IF Load(file).ok
       THEN /\ old_result' = Load(file).value
            /\ pc' = "diff"
            /\ UNCHANGED exit_code
       ELSE /\ Fatal
            /\ UNCHANGED old_result
  /\ UNCHANGED <<file, run, params, fetchVars, new_posts, idx, reqVars, sendVars,
                 fileAtStart, unnotified, failedEver>>

\* a diff on whole items instead of urls
DiffByItem(old, new) == SelectSeq(new, LAMBDA post : post \notin Elems(old))

\* old_urls = {item.get('url') ...}; [post for post in new_result if post.get('url') not in old_urls]
Diff(old, new) ==
  LET old_urls == Urls(old)
  IN  SelectSeq(new, LAMBDA post : Get(post, "url", None) \notin old_urls)

\* new_posts is computed; the loop is entered unless it is empty
ComputeDiff ==
  /\ pc = "diff"
  /\ new_posts' = Diff(old_result, new_result)
  /\ IF new_posts' = <<>>
       THEN pc' = "write"
       ELSE pc' = "loop"
  /\ UNCHANGED <<file, run, exit_code, params, fetchVars, new_result, old_result, idx, reqVars,
                 sendVars, fileAtStart, unnotified, failedEver>>

\* for post in new_posts: message = format_message(post); send_telegram_message posts it
IssueSend ==
  /\ pc = "loop"
  /\ idx' = idx + 1
  /\ sends' = Append(sends, [post |-> new_posts[idx'], text |-> format_message(new_posts[idx']),
                             status |-> 0, after_delays |-> delays])
  /\ pc' = "sending"
  /\ UNCHANGED <<file, run, exit_code, params, fetchVars, new_result, old_result, new_posts,
                 reqVars, delays, fileAtStart, unnotified, failedEver>>

\* a failed send handled like a failed fetch: the exception reaches main's handler
SendFailureFatal(status) ==
  IF status = 200
    THEN pc' = "sleep" /\ UNCHANGED exit_code
    ELSE Fatal

\* the sleep inside the try block: a failed send skips it
SendOutcomeNoDelay(status) ==
  /\ UNCHANGED exit_code
  /\ pc' = IF status = 200 THEN "sleep"
           ELSE IF idx < Len(new_posts) THEN "loop" ELSE "write"

\* try: await send_telegram_message(..) except Exception: print; then the sleep starts
SendOutcome(status) ==
  /\ pc' = "sleep"
  /\ UNCHANGED exit_code

\* the sendMessage response arrives, 200 or not
SendResponse(status) ==
  /\ pc = "sending"
  /\ sends' = [sends EXCEPT ![Len(sends)].status = status]
  /\ SendOutcome(status)
  /\ UNCHANGED <<file, run, params, fetchVars, mainVars, reqVars, delays, fileAtStart,
                 unnotified, failedEver>>

\* asyncio.sleep(30) returns; the for loop takes the next post or ends
SleepDone ==
  /\ pc = "sleep"
  /\ delays' = delays + 1
  /\ pc' = IF idx < Len(new_posts) THEN "loop" ELSE "write"
  /\ UNCHANGED <<file, run, exit_code, params, fetchVars, mainVars, reqVars, sends,
                 fileAtStart, unnotified, failedEver>>

\* urls of the posts whose send answered non-200
FailedSendUrls == {sends[k].post.url : k \in {j \in 1..Len(sends) : sends[j].status # 200}}

\* the old snapshot kept, the new posts appended: a merge
SnapshotMerged == old_result \o new_posts

\* only what was notified is remembered: posts whose send failed are left out
SnapshotWithoutFailed ==
  SelectSeq(new_result, LAMBDA post : post.url \notin FailedSendUrls)

\* json.dump(new_result, f, indent=2)
SnapshotToWrite == new_result

\* open(OUTPUT_FILE, 'w'); json.dump; main returns
WriteSnapshot ==
  /\ pc = "write"
  /\ file' = [state |-> "valid", data |-> SnapshotToWrite]
  /\ pc' = "exited"
  /\ exit_code' = 0
  /\ unnotified' = (unnotified \cap Urls(new_result)) \cup FailedSendUrls
  /\ failedEver' = failedEver \cup FailedSendUrls
  /\ UNCHANGED <<run, params, fetchVars, mainVars, reqVars, sendVars, fileAtStart>>

\* the script is started again; only the snapshot file is carried over
NextRun ==
  /\ pc = "exited"
  /\ run < MaxRuns
  /\ run' = run + 1
  /\ pc' = "start"
  /\ exit_code' = -1
  /\ total_files' = 0
  /\ all_results' = <<>>
  /\ remaining_offsets' = <<>>
  /\ task' = <<>>
  /\ batch_results' = <<>>
  /\ semaphore' = 0
  /\ new_result' = <<>>
  /\ old_result' = <<>>
  /\ new_posts' = <<>>
  /\ idx' = 0
  /\ requested' = [o \in Offsets |-> 0]
  /\ pages' = EmptyDict
  /\ completed' = <<>>
  /\ failed' = {}
  /\ sends' = <<>>
  /\ delays' = 0
  /\ fileAtStart' = file
  /\ UNCHANGED <<file, params, unnotified, failedEver>>

Next ==
  \/ StartRun
  \/ \E status \in Statuses, data \in TotalBodies : FirstResponse(status, data)
  \/ \E status \in Statuses, data \in PageBodies : FirstBatchResponse(status, data)
  \/ \E i \in 1..Len(task) : Acquire(i)
  \/ \E i \in 1..Len(task), status \in Statuses, data \in PageBodies : TaskResponse(i, status, data)
  \/ GatherReturns
  \/ GatherRaises
  \/ LoadSnapshot
  \/ ComputeDiff
  \/ IssueSend
  \/ \E status \in Statuses : SendResponse(status)
  \/ SleepDone
  \/ WriteSnapshot
  \/ NextRun

Spec == Init /\ [][Next]_vars


\* ---- properties ----------------------------------------------------------
Min(S) == CHOOSE m \in S : \A x \in S : m <= x

\* the normalized pages of the offsets in S, lowest offset first
RECURSIVE ConcatByOffset(_)
ConcatByOffset(S) ==
  IF S = {} THEN <<>>
  ELSE ProcessPage(pages[Min(S)]) \o ConcatByOffset(S \ {Min(S)})

RECURSIVE SumOfLengths(_)
SumOfLengths(S) ==
  IF S = {} THEN 0
  ELSE LET o == CHOOSE x \in S : TRUE
       IN  Len(Get(pages[o], "filesList", <<>>)) + SumOfLengths(S \ {o})

RequestedOffsets == {o \in Offsets : requested[o] > 0}

\* C1: when the fetch returns, its result is the pages' normalized items concatenated
\* in increasing offset order, whatever the order in which the pages completed: its
\* length is the sum of the pages' lengths and it is the concatenation by offset.
C1_OffsetOrderAssembly ==
  pc = "fetched" =>
    /\ DOMAIN pages = {0} \cup Elems(remaining_offsets)
    /\ Len(all_results) = SumOfLengths(DOMAIN pages)
    /\ all_results = ConcatByOffset(DOMAIN pages)

\* two remaining pages with different content completed in decreasing offset order
C1_Witness ==
  /\ pc = "fetched"
  /\ Len(completed) >= 2
  /\ completed[1] > completed[2]
  /\ ProcessPage(pages[completed[1]]) # <<>>
  /\ ProcessPage(pages[completed[2]]) # <<>>
  /\ ProcessPage(pages[completed[1]]) # ProcessPage(pages[completed[2]])

\* C2 as stated: after a successful fetch the set of requested offsets is
\* {0, P, 2P, ...} intersected with [0, T), also for T = 0.
C2_OffsetsAsStated ==
  pc = "fetched" =>
    RequestedOffsets = {o \in Offsets : o < total_files /\ o % batch_size = 0}

\* C2 amended: offset 0 is always requested (that is how T is learned); the other
\* requested offsets are the positive multiples of P below T.
C2_OffsetsAmended ==
  pc = "fetched" =>
    RequestedOffsets = {0} \cup {o \in Offsets : o > 0 /\ o < total_files /\ o % batch_size = 0}

\* a fetch of several pages whose last page is partial or full
C2_Witness ==
  /\ pc = "fetched"
  /\ total_files > batch_size
  /\ Cardinality(RequestedOffsets) >= 2

InFlight == {i \in 1..Len(task) : task[i] = "inflight"}

\* C3: in the remaining-pages phase the number of page requests issued and not yet
\* completed never exceeds max_concurrent.
C3_BoundedInFlight ==
  pc = "gather" => Cardinality(InFlight) <= max_concurrent

\* the gate is full and a task is held back by it
C3_Witness ==
  /\ pc = "gather"
  /\ Cardinality(InFlight) = max_concurrent
  /\ \E i \in 1..Len(task) : task[i] = "pending"

\* the snapshot the run started from, as a list (empty when there was no file)
OldItems == IF fileAtStart.state = "valid" THEN fileAtStart.data ELSE <<>>

\* positions of new_result whose url is in no item of the old snapshot
NewPositions == {i \in 1..Len(new_result) : \A j \in 1..Len(OldItems) : OldItems[j].url # new_result[i].url}

\* the k-th smallest of a set of positions
KthPosition(S, k) == CHOOSE i \in S : Cardinality({j \in S : j <= i}) = k

DiffDone == pc \in {"loop", "sending", "sleep", "write"}

\* C4: new_posts is exactly the subsequence of the fetched list whose url is the url
\* of no item of the previous snapshot, in the fetched list's order and with its
\* duplicates; it is empty when the fetched list equals the snapshot, and it is the
\* whole fetched list when there was no snapshot file.
C4_DiffIsUnseenSubsequence ==
  DiffDone =>
    /\ Len(new_posts) = Cardinality(NewPositions)
    /\ \A k \in 1..Len(new_posts) : new_posts[k] = new_result[KthPosition(NewPositions, k)]
    /\ (fileAtStart.state = "valid" /\ new_result = fileAtStart.data => new_posts = <<>>)
    /\ (fileAtStart.state = "absent" => new_posts = new_result)

\* a fetched list of which some items are known by url and some are not
C4_Witness ==
  /\ DiffDone
  /\ OldItems # <<>>
  /\ new_posts # <<>>
  /\ Len(new_posts) < Len(new_result)

\* C5: once a page request has answered non-200 the run can only end with exit
\* code 1, the snapshot file keeps the content it had before the run, no
\* notification is sent, and no further request is made for that offset.
C5_FetchErrorIsFatal ==
  /\ [](failed # {} =>
          /\ pc \in {"gather", "exited"}
          /\ (pc = "exited" => exit_code = 1)
          /\ file = fileAtStart
          /\ sends = <<>>)
  /\ [][\A o \in failed : run' = run => requested'[o] = requested[o]]_vars

\* a remaining page failed while its sibling succeeded, and the run has ended
C5_Witness ==
  /\ pc = "exited"
  /\ failed # {}
  /\ 0 \notin failed
  /\ completed # <<>>
  /\ fileAtStart.state = "valid"


\* the posts of the sends issued so far, in issue order
SentPosts == [k \in 1..Len(sends) |-> sends[k].post]

\* a run that got past the fetch and the snapshot read
PastDiff == failed = {} /\ fileAtStart.state # "corrupt"

\* C6: whichever sends fail, exactly one send is attempted for every item of
\* new_posts, in new_posts order, carrying that item's message; the run then writes
\* the snapshot and ends with exit code 0.
C6_FailedSendDoesNotAbort ==
  /\ Len(sends) = idx
  /\ SentPosts = SubSeq(new_posts, 1, idx)
  /\ \A k \in 1..Len(sends) : sends[k].text = format_message(new_posts[k])
  /\ (pc = "exited" /\ PastDiff =>
        /\ exit_code = 0
        /\ SentPosts = new_posts
        /\ file = [state |-> "valid", data |-> new_result])

\* a send failed, a later item was still attempted, and the run ended
C6_Witness ==
  /\ pc = "exited"
  /\ exit_code = 0
  /\ Len(sends) >= 2
  /\ sends[1].status # 200
  /\ sends[2].status = 200

\* C7: after a successful run the snapshot file holds exactly the list the fetch of
\* that run returned, in fetch order; nothing of the previous snapshot is retained.
C7_SnapshotReplaced ==
  pc = "exited" /\ exit_code = 0 =>
    /\ file.state = "valid"
    /\ file.data = all_results

\* a second successful run whose fetch no longer lists an item of the snapshot
C7_Witness ==
  /\ pc = "exited"
  /\ exit_code = 0
  /\ run > 1
  /\ fileAtStart.state = "valid"
  /\ \E j \in 1..Len(fileAtStart.data) : fileAtStart.data[j].url \notin Urls(all_results)
  /\ all_results # <<>>

\* sends issued and not yet answered
SendsInFlight == {k \in 1..Len(sends) : sends[k].status = 0}

\* C8: at most one send is in flight; send k+1 is issued only after send k has been
\* answered and the delay after it has elapsed; the snapshot is written only after
\* the last send has been answered and its delay has elapsed.
C8_SequentialNotification ==
  /\ Cardinality(SendsInFlight) <= 1
  /\ \A k \in 1..Len(sends) :
       /\ sends[k].after_delays = k - 1
       /\ (k < Len(sends) => sends[k].status # 0)
  /\ (pc \in {"write", "exited"} => SendsInFlight = {} /\ delays = Len(sends))
  /\ (pc = "exited" /\ exit_code = 0 => Len(sends) = Len(new_posts))

\* the snapshot was written after three sends, one of which failed
C8_Witness ==
  /\ pc = "exited"
  /\ exit_code = 0
  /\ Len(sends) >= 3
  /\ delays = Len(sends)
  /\ \E k \in 1..Len(sends) : sends[k].status # 200

\* C9 as stated: a url whose send failed in a run that completed is, in every later
\* run that lists it, not in new_posts, and no send is attempted for it.
C9_NeverRetriedAsStated ==
  pc # "exited" =>
    \A u \in failedEver :
      DiffDone /\ u \in Urls(new_result) =>
        /\ u \notin Urls(new_posts)
        /\ \A k \in 1..Len(sends) : sends[k].post.url # u

\* C9 amended: a url whose send failed in a run that completed, and that every
\* completed run since has listed, is in the snapshot: a later run that lists it does
\* not put it in new_posts and attempts no send for it.
C9_FailedSendNotRetried ==
  pc # "exited" =>
    \A u \in unnotified :
      /\ (DiffDone /\ u \in Urls(new_result) => u \notin Urls(new_posts))
      /\ \A k \in 1..Len(sends) : sends[k].post.url # u

\* a later run lists the url of a failed send next to a new item, which it sends
C9_Witness ==
  /\ run > 1
  /\ pc = "write"
  /\ unnotified \cap Urls(new_result) # {}
  /\ sends # <<>>

\* C10: a run that finds an unparsable snapshot file ends, after a successful
\* fetch, with exit code 1, sends nothing and leaves the file as it was.
C10_CorruptSnapshotIsFatal ==
  fileAtStart.state = "corrupt" =>
    /\ file = fileAtStart
    /\ sends = <<>>
    /\ pc \notin {"diff", "loop", "sending", "sleep", "write"}
    /\ (pc = "exited" => exit_code = 1)

\* the fetch succeeded with items, the file was unparsable, the run has ended
C10_Witness ==
  /\ fileAtStart.state = "corrupt"
  /\ pc = "exited"
  /\ failed = {}
  /\ all_results # <<>>

====
